---------------------------- MODULE Spec2Model ----------------------------
(***************************************************************************)
(* Model of mail-tester-ninja: the discovery engine of main.py             *)
(* (extract_root_domain, generate_prioritized_email_patterns,              *)
(* validate_email, find_valid_email, find_email) and the batch             *)
(* orchestrator of process_csv.py (process_row, run_job).                  *)
(*                                                                         *)
(* Python strings that the code takes apart (names, websites, the          *)
(* service's classification code) are sequences of one-character strings;  *)
(* strings the code only builds and compares (candidate addresses, status  *)
(* codes, messages) are TLA+ strings.  A Python value that may be None is  *)
(* a sequence of length 0 (None) or 1 (the value).                         *)
(***************************************************************************)
EXTENDS Integers, Sequences, FiniteSets, TLC

(***************************************************************************)
(* Python values                                                           *)
(***************************************************************************)
None == <<>>

Some(v) == <<v>>

\* Python truthiness of an optional string: None and "" are falsy.
Truthy(v) == v # None /\ v[1] # <<>>

\* (v or "") for an optional string.
OrEmpty(v) == IF Truthy(v) THEN v[1] ELSE <<>>

Range(s) == {s[i] : i \in 1..Len(s)}

\* str.lower() on one character of the model's alphabet.
LowerChar(c) ==
    CASE c = "A" -> "a"
      [] c = "B" -> "b"
      [] c = "C" -> "c"
      [] c = "D" -> "d"
      [] c = "K" -> "k"
      [] c = "L" -> "l"
      [] c = "O" -> "o"
      [] c = "T" -> "t"
      [] c = "H" -> "h"
      [] OTHER -> c

\* str.lower()
Lower(s) == [i \in 1..Len(s) |-> LowerChar(s[i])]

IsSpace(c) == c \in {" ", "\t", "\n"}

RECURSIVE LStrip(_)
LStrip(s) == IF s # <<>> /\ IsSpace(Head(s)) THEN LStrip(Tail(s)) ELSE s

RECURSIVE RStrip(_)
RStrip(s) ==
    IF s # <<>> /\ IsSpace(s[Len(s)]) THEN RStrip(SubSeq(s, 1, Len(s) - 1)) ELSE s

\* str.strip()
Strip(s) == RStrip(LStrip(s))

\* Whether pat occurs in s at position i.
OccursAt(s, pat, i) ==
    /\ i + Len(pat) - 1 <= Len(s)
    /\ SubSeq(s, i, i + Len(pat) - 1) = pat

\* str.replace(pat, ""): every non-overlapping occurrence, left to right.
RECURSIVE Remove(_, _)
Remove(s, pat) ==
    IF s = <<>> THEN <<>>
    ELSE IF OccursAt(s, pat, 1)
         THEN Remove(SubSeq(s, Len(pat) + 1, Len(s)), pat)
         ELSE <<Head(s)>> \o Remove(Tail(s), pat)

\* str.split(sep)[0] for a one-character separator.
RECURSIVE SplitHead(_, _)
SplitHead(s, sep) ==
    IF s = <<>> \/ Head(s) = sep THEN <<>>
    ELSE <<Head(s)>> \o SplitHead(Tail(s), sep)

\* The Python string a sequence of characters stands for.
RECURSIVE Str(_)
Str(s) == IF s = <<>> THEN "" ELSE Head(s) \o Str(Tail(s))

(***************************************************************************)
(* main.py: the pure functions                                             *)
(***************************************************************************)
VALID_CODES == {"ok", "catch_all", "catchall"}

HttpPrefix == <<"h", "t", "t", "p", ":", "/", "/">>

HttpsPrefix == <<"h", "t", "t", "p", "s", ":", "/", "/">>

WwwPrefix == <<"w", "w", "w", ".">>

extract_root_domain(company_website) ==
    Strip(SplitHead(Remove(Remove(Remove(company_website, HttpPrefix),
                                  HttpsPrefix), WwwPrefix), "/"))

\* Deduplication that keeps the last occurrence of each entry.
RECURSIVE DedupLast(_)
DedupLast(l) ==
    IF l = <<>> THEN <<>>
    ELSE LET rest == DedupLast(Tail(l))
         IN  IF Head(l) \in Range(rest) THEN rest ELSE <<Head(l)>> \o rest

\* list(dict.fromkeys(l)): the first occurrence of each entry is kept.
RECURSIVE DedupFirst(_)
DedupFirst(l) ==
    IF l = <<>> THEN <<>>
    ELSE LET front == DedupFirst(SubSeq(l, 1, Len(l) - 1))
             x     == l[Len(l)]
         IN  IF x \in Range(front) THEN front ELSE Append(front, x)

\* The patterns as appended by the two extend() calls and the else branch,
\* before deduplication.  first_name is a string, last_name a string or None,
\* domain a string.
RawPatterns(first_name, last_name, domain) ==
    LET first == Lower(first_name)
        fi    == Lower(<<first[1]>>)
        d     == "@" \o Str(domain)
    IN  IF Truthy(last_name)
        THEN LET last == Lower(last_name[1])
                 li   == Lower(<<last[1]>>)
             IN  << Str(first) \o d,
                    Str(fi) \o Str(last) \o d,
                    Str(first) \o "." \o Str(last) \o d,
                    Str(first) \o Str(last) \o d,
                    Str(fi) \o "." \o Str(last) \o d,
                    Str(fi) \o Str(li) \o d,
                    Str(first) \o Str(li) \o d,
                    Str(last) \o Str(first) \o d,
                    Str(last) \o d >>
        ELSE << Str(first) \o d >>

generate_prioritized_email_patterns(first_name, last_name, domain) ==
    IF first_name = <<>> THEN <<>>
    ELSE DedupFirst(RawPatterns(first_name, last_name, domain))

(***************************************************************************)
(* The verification service's answer to one call, as validate_email sees   *)
(* it: the request failed (connection error, timeout, non-2xx status), the *)
(* 2xx body is not JSON, or the body is a JSON object whose "code" is a    *)
(* string, or is null or missing (None).                                   *)
(***************************************************************************)
TransportFailure == [kind |-> "transport", code |-> None]

NotJson == [kind |-> "nonjson", code |-> None]

Payload(code) == [kind |-> "json", code |-> code]

\* validate_email with is_valid taken from the code as sent, not lower-cased.
validate_email_raw_code(email, answer) ==
    IF answer.kind = "transport"
    THEN [is_valid |-> FALSE, status_code |-> "request_error",
          details |-> None, error |-> Some("API request failed")]
    ELSE IF answer.kind = "nonjson"
    THEN [is_valid |-> FALSE, status_code |-> "json_error",
          details |-> None, error |-> Some("Failed to decode API response")]
    ELSE [is_valid |-> Str(OrEmpty(answer.code)) \in VALID_CODES,
          status_code |-> Str(Lower(OrEmpty(answer.code))),
          details |-> Some(answer),
          error |-> None]

validate_email(email, answer) ==
    IF answer.kind = "transport"
    THEN [is_valid |-> FALSE, status_code |-> "request_error",
          details |-> None, error |-> Some("API request failed")]
    ELSE IF answer.kind = "nonjson"
    THEN [is_valid |-> FALSE, status_code |-> "json_error",
          details |-> None, error |-> Some("Failed to decode API response")]
    ELSE LET status_code == Str(Lower(OrEmpty(answer.code)))
         IN  [is_valid |-> status_code \in VALID_CODES,
              status_code |-> status_code,
              details |-> Some(answer),
              error |-> None]


(***************************************************************************)
(* Bounds and inputs                                                       *)
(***************************************************************************)
\* Number of discovery invocations (one per batch row) the model follows.
MaxRows == 2

\* Largest configured size of the worker pool.
MaxThreads == 2

Reqs == 1..MaxRows

Keys == {"first_name", "last_name", "company_website"}

FirstNameValues ==
    { None, Some(<<>>), Some(<<" ">>), Some(<<"a">>),
      Some(<<" ", "A", "b", " ">>) }

LastNameValues ==
    { None, Some(<<>>), Some(<<" ">>), Some(<<"a">>), Some(<<"C", "d">>) }

WebsiteValues ==
    { None, Some(<<>>), Some(<<" ">>), Some(<<"x", ".", "i", "o">>),
      Some(<<"h", "t", "t", "p", "s", ":", "/", "/", "w", "w", "w", ".",
             "x", ".", "i", "o", "/", "a">>) }

\* What the verification service may answer to one call.
Answers ==
    { TransportFailure, NotJson,
      Payload(None), Payload(Some(<<>>)),
      Payload(Some(<<"o", "k">>)), Payload(Some(<<"O", "K">>)),
      Payload(Some(<<"c", "a", "t", "c", "h", "_", "a", "l", "l">>)),
      Payload(Some(<<"C", "a", "t", "c", "h", "A", "l", "l">>)),
      Payload(Some(<<"k", "o">>)) }

FullBodies ==
    { [first_name |-> f, last_name |-> l, company_website |-> w] :
        f \in FirstNameValues, l \in LastNameValues, w \in WebsiteValues }

\* The JSON bodies a client may post to find_email: any subset of the keys.
HttpRequests ==
    { [via |-> "http", has_json |-> TRUE, body |-> [k \in K |-> b[k]]] :
        b \in FullBodies, K \in SUBSET Keys }
    \cup { [via |-> "http", has_json |-> FALSE, body |-> <<>>] }

\* The arguments of a direct call of find_valid_email: company_website is a
\* string, the names are strings or None.
DirectCalls ==
    { [via |-> "direct", has_json |-> TRUE, body |-> b] :
        b \in {c \in FullBodies : c.company_website # None} }

NoRequest == [via |-> "none", has_json |-> FALSE, body |-> <<>>]

(***************************************************************************)
(* State                                                                   *)
(***************************************************************************)
VARIABLES
    fpc,            \* per invocation: "idle", "posted", "probing", "sleeping", "done"
    request,        \* the request (or the arguments) of the invocation
    email_patterns, \* find_valid_email: the candidate list
    pos,            \* find_valid_email: index of the for loop's current candidate
    attempts,       \* find_valid_email: attempts
    last_result,    \* find_valid_email: last_result (None or a ProbeResult)
    ret,            \* the value find_valid_email returned (None before)
    response,       \* the HTTP response of find_email (None before)
    calls,          \* history: the addresses passed to validate_email, in order
    replies,        \* history: is_valid of each ProbeResult returned, in order
    last_reply,     \* history: the ProbeResult of the latest call (None before)
    last_answer,    \* history: the service's answer to the latest call
    delays,         \* history: number of time.sleep calls of the loop
    failures,       \* history: number of probes that ended in a failure
    gen_args,       \* a call of generate_prioritized_email_patterns: its arguments
    gen_out,        \* and its return value (None before the call)
    dom_arg,        \* a call of extract_root_domain: its argument
    dom_out,        \* and its return value (None before the call)
    NUM_THREADS,    \* the configured size of the worker pool
    rows,           \* run_job: the rows read from the input artifact
    jpc,            \* run_job: "idle", "submit", "collect", "flush", "done"
    submitted,      \* run_job: number of rows submitted to the executor
    fut,            \* per row: "unsubmitted", "pending" (queued), "posted" and
                    \* "sleeping" (process_row running), "returned", "raised"
    data,           \* process_row: data (None before the POST is over)
    row_result,     \* per row: the value process_row returned (None before)
    yielded,        \* run_job: the rows as_completed has yielded
    buffer,         \* the output file object: rows written and not yet flushed
    out_file,       \* the local output artifact: the rows flushed to it
    uploaded        \* the uploaded output artifact (None before the upload)

dvars == << fpc, request, email_patterns, pos, attempts, last_result, ret,
            response, calls, replies, last_reply, last_answer, delays,
            failures >>

gvars == << gen_args, gen_out, dom_arg, dom_out >>

\* The variables the discovery engine leaves alone.
bvars == << NUM_THREADS, rows, jpc, submitted, fut, data, row_result, yielded, buffer, out_file,
            uploaded >>

ovars == << gvars, bvars >>

vars == << dvars, gvars, bvars >>

(***************************************************************************)
(* main.py: find_valid_email                                               *)
(***************************************************************************)
\* The success return with the credits counted before the accepted probe.
FoundResultOffByOne(email, result, n) ==
    [email_found |-> email,
     status_code |-> Some(result.status_code),
     validation_result |-> result.details,
     total_credits_used |-> n - 1,
     error |-> result.error]

\* Lines 135-141: the success return.
FoundResult(email, result, n) ==
    [email_found |-> email,
     status_code |-> Some(result.status_code),
     validation_result |-> result.details,
     total_credits_used |-> n,
     error |-> result.error]

\* The return after the loop reporting no credit.
ExhaustedResultNoCredits(last, n) ==
    [email_found |-> "no valid email",
     status_code |-> IF last # None THEN Some(last[1].status_code) ELSE None,
     validation_result |-> IF last # None THEN last[1].details ELSE None,
     total_credits_used |-> 0,
     error |-> IF last # None THEN last[1].error
               ELSE Some("No pattern returned as valid")]

\* Lines 147-153: the return after the loop.
ExhaustedResult(last, n) ==
    [email_found |-> "no valid email",
     status_code |-> IF last # None THEN Some(last[1].status_code) ELSE None,
     validation_result |-> IF last # None THEN last[1].details ELSE None,
     total_credits_used |-> n,
     error |-> IF last # None THEN last[1].error
               ELSE Some("No pattern returned as valid")]

\* The candidate list with the first name lower-cased but not trimmed.
CandidatesNoStrip(first_name, last_name, company_website) ==
    LET domain == extract_root_domain(company_website)
        first  == Lower(OrEmpty(first_name))
        last   == IF Truthy(last_name)
                  THEN Some(Lower(Strip(OrEmpty(last_name))))
                  ELSE None
    IN  generate_prioritized_email_patterns(first, last, domain)

\* Lines 122-125: the candidate list of a call.
Candidates(first_name, last_name, company_website) ==
    LET domain == extract_root_domain(company_website)
        first  == Lower(Strip(OrEmpty(first_name)))
        last   == IF Truthy(last_name)
                  THEN Some(Lower(Strip(OrEmpty(last_name))))
                  ELSE None
    IN  generate_prioritized_email_patterns(first, last, domain)

\* attempts counted from the second candidate on.
CountAttemptLate(n) == IF n = 0 THEN 0 ELSE n + 1

\* Line 130: attempts += 1.
CountAttempt(n) == n + 1

\* last_result set by the first probe only.
KeepFirstResult(old, result) == IF old = None THEN Some(result) ELSE old

\* Line 132: last_result = result.
KeepResult(old, result) == Some(result)

\* The loop returning on a failed probe as well as on a valid one.
StopsOnFailure(result) == result.is_valid \/ result.error # None

\* Line 134: the loop returns on a valid result.
StopsOn(result) == result.is_valid

\* find_valid_email returns res; inside find_email that is the 200 response
\* (lines 180-182).
Return(q, res) ==
    /\ fpc' = [fpc EXCEPT ![q] = "done"]
    /\ ret' = [ret EXCEPT ![q] = Some(res)]
    /\ response' = IF request[q].via = "http"
                   THEN [response EXCEPT ![q] = Some([status |-> 200, body |-> res])]
                   ELSE response

\* The loop walking the candidate list from its end.
ProbeFromEnd(q, patterns, i, n) ==
    /\ fpc' = [fpc EXCEPT ![q] = "probing"]
    /\ pos' = [pos EXCEPT ![q] = i]
    /\ attempts' = [attempts EXCEPT ![q] = CountAttempt(n)]
    /\ calls' = [calls EXCEPT ![q] = Append(@, patterns[Len(patterns) + 1 - i])]
    /\ UNCHANGED << ret, response >>

\* Lines 129-131: the loop takes candidate i, counts it and calls
\* validate_email, which sends the request.
Probe(q, patterns, i, n) ==
    /\ fpc' = [fpc EXCEPT ![q] = "probing"]
    /\ pos' = [pos EXCEPT ![q] = i]
    /\ attempts' = [attempts EXCEPT ![q] = CountAttempt(n)]
    /\ calls' = [calls EXCEPT ![q] = Append(@, patterns[i])]
    /\ UNCHANGED << ret, response >>

\* Lines 119-131 (and 147-153 for an empty list): from the call to the first
\* request sent.
EnterFindValidEmail(q, first_name, last_name, company_website) ==
    LET patterns == Candidates(first_name, last_name, company_website)
    IN  /\ email_patterns' = [email_patterns EXCEPT ![q] = patterns]
        /\ IF patterns = <<>>
           THEN /\ Return(q, ExhaustedResult(None, 0))
                /\ UNCHANGED << pos, attempts, calls >>
           ELSE Probe(q, patterns, 1, 0)
        /\ UNCHANGED << request, last_result, replies, last_reply, last_answer,
                        delays, failures >>

\* A direct call of find_valid_email.
FindValidEmail(q) ==
    /\ fpc[q] = "posted"
    /\ request[q].via = "direct"
    /\ EnterFindValidEmail(q, request[q].body.first_name,
                           request[q].body.last_name,
                           request[q].body.company_website[1])
    /\ UNCHANGED ovars

\* Lines 131-144: validate_email returns; a valid result is returned, any
\* other is followed by the rate-limit sleep.
ProbeReturn(q, answer) ==
    /\ fpc[q] = "probing"
    /\ LET email  == email_patterns[q][pos[q]]
           result == validate_email(email, answer)
       IN  /\ last_result' = [last_result EXCEPT ![q] = KeepResult(@, result)]
           /\ replies' = [replies EXCEPT ![q] = Append(@, result.is_valid)]
           /\ last_reply' = [last_reply EXCEPT ![q] = Some(result)]
           /\ last_answer' = [last_answer EXCEPT ![q] = Some(answer)]
           /\ failures' = [failures EXCEPT ![q] =
                             IF result.error # None THEN @ + 1 ELSE @]
           /\ IF StopsOn(result)
              THEN /\ Return(q, FoundResult(email, result, attempts[q]))
                   /\ UNCHANGED delays
              ELSE /\ fpc' = [fpc EXCEPT ![q] = "sleeping"]
                   /\ delays' = [delays EXCEPT ![q] = @ + 1]
                   /\ UNCHANGED << ret, response >>
    /\ UNCHANGED << request, email_patterns, pos, attempts, calls >>
    /\ UNCHANGED ovars

\* Lines 144, 129-131, 147-153: the sleep ends; the loop takes the next
\* candidate, or is over and the function returns.
SleepReturn(q) ==
    /\ fpc[q] = "sleeping"
    /\ IF pos[q] < Len(email_patterns[q])
       THEN Probe(q, email_patterns[q], pos[q] + 1, attempts[q])
       ELSE /\ Return(q, ExhaustedResult(last_result[q], attempts[q]))
            /\ UNCHANGED << pos, attempts, calls >>
    /\ UNCHANGED << request, email_patterns, last_result, replies, last_reply,
                    last_answer, delays, failures >>
    /\ UNCHANGED ovars

(***************************************************************************)
(* main.py: find_email                                                     *)
(***************************************************************************)
BadRequest(msg) == [status |-> 400, body |-> [error |-> msg]]

\* Line 166.
MissingParameters(rq) ==
    \/ ~rq.has_json
    \/ DOMAIN rq.body = {}
    \/ "first_name" \notin DOMAIN rq.body
    \/ "company_website" \notin DOMAIN rq.body

\* dict.get(key): None for a missing key.
Get(body, key) == IF key \in DOMAIN body THEN body[key] ELSE None

\* The check of line 175 as a test for None, which lets empty strings pass.
EmptyParametersNoneOnly(rq) ==
    \/ Get(rq.body, "first_name") = None
    \/ Get(rq.body, "company_website") = None

\* Line 175.
EmptyParameters(rq) ==
    \/ ~Truthy(Get(rq.body, "first_name"))
    \/ ~Truthy(Get(rq.body, "company_website"))

FindEmail(q) ==
    /\ fpc[q] = "posted"
    /\ request[q].via = "http"
    /\ LET rq == request[q]
       IN  IF MissingParameters(rq) \/ EmptyParameters(rq)
           THEN /\ fpc' = [fpc EXCEPT ![q] = "done"]
                /\ response' = [response EXCEPT ![q] =
                     Some(BadRequest(
                       IF MissingParameters(rq)
                       THEN "Missing required parameters. Please provide first_name and company_website"
                       ELSE "first_name and company_website cannot be empty"))]
                /\ UNCHANGED << request, email_patterns, pos, attempts,
                                last_result, ret, calls, replies, last_reply,
                                last_answer, delays,
                                failures >>
           ELSE EnterFindValidEmail(q, Get(rq.body, "first_name"),
                                    Get(rq.body, "last_name"),
                                    Get(rq.body, "company_website")[1])
    /\ UNCHANGED ovars

(***************************************************************************)
(* The discovery engine on its own: one invocation, by HTTP or by a direct *)
(* call, with any request of the input sets.                               *)
(***************************************************************************)
IdleDiscovery ==
    /\ email_patterns = [q \in Reqs |-> <<>>]
    /\ pos = [q \in Reqs |-> 0]
    /\ attempts = [q \in Reqs |-> 0]
    /\ last_result = [q \in Reqs |-> None]
    /\ ret = [q \in Reqs |-> None]
    /\ response = [q \in Reqs |-> None]
    /\ calls = [q \in Reqs |-> <<>>]
    /\ replies = [q \in Reqs |-> <<>>]
    /\ last_reply = [q \in Reqs |-> None]
    /\ last_answer = [q \in Reqs |-> None]
    /\ delays = [q \in Reqs |-> 0]
    /\ failures = [q \in Reqs |-> 0]

NoGeneratorCall == [first_name |-> <<>>, last_name |-> None, domain |-> <<>>]

\* No call of extract_root_domain on its own.
NoDomainCall ==
    /\ dom_arg = <<>>
    /\ dom_out = None

\* No batch job.
IdleBatch ==
    /\ NUM_THREADS = 1
    /\ rows = <<>>
    /\ jpc = "idle"
    /\ submitted = 0
    /\ fut = [i \in Reqs |-> "unsubmitted"]
    /\ data = [i \in Reqs |-> None]
    /\ row_result = [i \in Reqs |-> None]
    /\ yielded = {}
    /\ buffer = <<>>
    /\ out_file = <<>>
    /\ uploaded = None

InitDiscover ==
    /\ gen_args = NoGeneratorCall
    /\ gen_out = None
    /\ NoDomainCall
    /\ IdleBatch
    /\ \E rq \in HttpRequests \cup DirectCalls :
         request = [q \in Reqs |-> IF q = 1 THEN rq ELSE NoRequest]
    /\ fpc = [q \in Reqs |-> IF q = 1 THEN "posted" ELSE "idle"]
    /\ IdleDiscovery

NextDiscover ==
    \E q \in Reqs :
        \/ FindEmail(q)
        \/ FindValidEmail(q)
        \/ \E answer \in Answers : ProbeReturn(q, answer)
        \/ SleepReturn(q)

SpecDiscover == InitDiscover /\ [][NextDiscover]_vars

(***************************************************************************)
(* Two people at once: the service handles a request of find_email while   *)
(* find_valid_email runs for another person.                               *)
(***************************************************************************)
XIoSite == Some(<<"x", ".", "i", "o">>)

\* Three candidates (first "a", last "a") and one candidate (no last name).
PairCalls ==
    { [via |-> v, has_json |-> TRUE,
       body |-> [first_name |-> Some(<<"a">>), last_name |-> l,
                 company_website |-> XIoSite]] :
        v \in {"http", "direct"}, l \in {None, Some(<<"a">>)} }

InitPair ==
    /\ gen_args = NoGeneratorCall
    /\ gen_out = None
    /\ NoDomainCall
    /\ IdleBatch
    /\ \E r1 \in PairCalls, r2 \in PairCalls :
         request = [q \in Reqs |-> IF q = 1 THEN r1 ELSE IF q = 2 THEN r2 ELSE NoRequest]
    /\ fpc = [q \in Reqs |-> IF q \in {1, 2} THEN "posted" ELSE "idle"]
    /\ IdleDiscovery

SpecPair == InitPair /\ [][NextDiscover]_vars

(***************************************************************************)
(* process_csv.py: process_row                                             *)
(***************************************************************************)
\* Lines 39-41: (row.get(key) or "").strip()
Field(row, key) == Strip(OrEmpty(Get(row, key)))

\* The check of line 43 on first_name alone.
MissingFirstNameOnly(row) == Field(row, "first_name") = <<>>

\* Line 43.
MissingRequired(row) ==
    Field(row, "first_name") = <<>> \/ Field(row, "company_website") = <<>>

\* Lines 45-54.
SkippedRow(row) ==
    [first_name |-> Some(Field(row, "first_name")),
     last_name |-> Some(Field(row, "last_name")),
     company_website |-> Some(Field(row, "company_website")),
     email_found |-> None,
     status_code |-> None,
     validation_result |-> None,
     total_credits_used |-> None,
     error |-> Some("Missing required fields")]

\* Lines 56-60 and 65: the request posted to find_email.
PostedRequest(row) ==
    [via |-> "http", has_json |-> TRUE,
     body |-> [first_name |-> Some(Field(row, "first_name")),
               last_name |-> Some(Field(row, "last_name")),
               company_website |-> Some(Field(row, "company_website"))]]

\* Lines 66-67: the dict response.json() gives for a response of find_email;
\* a 400 makes raise_for_status raise, which line 70 turns into an error dict.
\* Every value of the dict is a value or None.
DataOf(resp) ==
    IF resp.status = 200
    THEN [object |-> TRUE,
          d |-> [email_found |-> Some(resp.body.email_found),
                 status_code |-> resp.body.status_code,
                 validation_result |-> resp.body.validation_result,
                 total_credits_used |-> Some(resp.body.total_credits_used),
                 error |-> resp.body.error]]
    ELSE [object |-> TRUE, d |-> [error |-> Some("HTTPError")]]

\* Lines 68-70: the request raised (connection error, timeout).
ErrorData == [object |-> TRUE, d |-> [error |-> Some("request failed")]]

\* Line 67 when the 2xx body is JSON but not an object: data is no dict.
NonObjectData == [object |-> FALSE, d |-> <<>>]

\* Lines 74-83.
ResultRow(row, dat) ==
    [first_name |-> Some(Field(row, "first_name")),
     last_name |-> Some(Field(row, "last_name")),
     company_website |-> Some(Field(row, "company_website")),
     email_found |-> Get(dat, "email_found"),
     status_code |-> Get(dat, "status_code"),
     validation_result |-> Get(dat, "validation_result"),
     total_credits_used |-> Get(dat, "total_credits_used"),
     error |-> Get(dat, "error")]

\* The rows a worker thread is processing.
Running == {i \in Reqs : fut[i] \in {"posted", "sleeping"}}

\* A pool that starts the oldest queued row whatever the number of rows
\* being processed.
WorkerAlwaysFree(i) == \A j \in 1..(i - 1) : fut[j] # "pending"

\* A worker thread takes the oldest queued row when fewer than NUM_THREADS
\* rows are being processed.
WorkerFree(i) ==
    /\ \A j \in 1..(i - 1) : fut[j] # "pending"
    /\ Cardinality(Running) < NUM_THREADS

\* Lines 38-65: a worker starts process_row on row i: a row with a missing
\* field is returned at once, any other is posted to find_email.
StartRow(i) ==
    /\ fut[i] = "pending"
    /\ WorkerFree(i)
    /\ IF MissingRequired(rows[i])
       THEN /\ fut' = [fut EXCEPT ![i] = "returned"]
            /\ row_result' = [row_result EXCEPT ![i] = Some(SkippedRow(rows[i]))]
            /\ UNCHANGED << fpc, request >>
       ELSE /\ fut' = [fut EXCEPT ![i] = "posted"]
            /\ fpc' = [fpc EXCEPT ![i] = "posted"]
            /\ request' = [request EXCEPT ![i] = PostedRequest(rows[i])]
            /\ UNCHANGED row_result
    /\ UNCHANGED << email_patterns, pos, attempts, last_result, ret, response,
                    calls, replies, last_reply, last_answer, delays,
                    failures >>
    /\ UNCHANGED << gvars, NUM_THREADS, rows, jpc, submitted, data, yielded,
                    buffer, out_file, uploaded >>

\* The end of the POST of row i, with the data it leaves; the delay of line
\* 72 follows.
PostOver(i, dat) ==
    /\ fut[i] = "posted"
    /\ fut' = [fut EXCEPT ![i] = "sleeping"]
    /\ data' = [data EXCEPT ![i] = Some(dat)]
    /\ UNCHANGED << dvars, gvars, NUM_THREADS, rows >>
    /\ UNCHANGED << jpc, submitted, row_result, yielded, buffer, out_file,
                    uploaded >>

\* Lines 65-67: find_email has answered.
PostReturns(i) ==
    /\ response[i] # None
    /\ PostOver(i, DataOf(response[i][1]))

\* Lines 65, 68-70: the request fails or times out, whatever find_email is
\* doing.
PostFails(i) == PostOver(i, ErrorData)

\* Lines 65-67: the endpoint answers 2xx with a JSON body that is no object.
PostReturnsNonObject(i) == PostOver(i, NonObjectData)

\* Lines 72-83: the delay is over and the row is built; data.get raises when
\* data is no dict, and the exception leaves process_row.
RowReturns(i) ==
    /\ fut[i] = "sleeping"
    /\ IF data[i][1].object
       THEN /\ fut' = [fut EXCEPT ![i] = "returned"]
            /\ row_result' = [row_result EXCEPT ![i] =
                             Some(ResultRow(rows[i], data[i][1].d))]
       ELSE /\ fut' = [fut EXCEPT ![i] = "raised"]
            /\ UNCHANGED row_result
    /\ UNCHANGED << dvars, gvars, NUM_THREADS, rows >>
    /\ UNCHANGED << jpc, submitted, data, yielded, buffer, out_file,
                    uploaded >>

(***************************************************************************)
(* process_csv.py: run_job                                                 *)
(***************************************************************************)
\* Lines 137-146.
FaultRow ==
    [first_name |-> None,
     last_name |-> None,
     company_website |-> None,
     email_found |-> None,
     status_code |-> None,
     validation_result |-> None,
     total_credits_used |-> None,
     error |-> Some("Unhandled thread error")]

\* Lines 126-129: executor.submit for the next row; after the last one the
\* as_completed loop starts.
Submit ==
    /\ jpc = "submit"
    /\ submitted < Len(rows)
    /\ submitted' = submitted + 1
    /\ fut' = [fut EXCEPT ![submitted + 1] = "pending"]
    /\ jpc' = IF submitted + 1 = Len(rows) THEN "collect" ELSE "submit"
    /\ UNCHANGED << dvars, gvars, NUM_THREADS, rows >>
    /\ UNCHANGED << data, row_result, yielded, buffer, out_file, uploaded >>

\* The row of a faulted future built like the row of a skipped one.
RowOfFutureAsSkipped(i) ==
    IF fut[i] = "returned" THEN row_result[i][1] ELSE SkippedRow(rows[i])

\* Lines 133-146: the row written for a future that is done.
RowOfFuture(i) == IF fut[i] = "returned" THEN row_result[i][1] ELSE FaultRow

\* The loop taking the futures that returned a row only.
CollectReturnedOnly(i) ==
    /\ jpc = "collect"
    /\ i \in 1..Len(rows)
    /\ i \notin yielded
    /\ fut[i] = "returned"
    /\ yielded' = yielded \cup {i}
    /\ buffer' = Append(buffer, [idx |-> i, row |-> RowOfFuture(i)])
    /\ jpc' = "flush"
    /\ UNCHANGED << dvars, gvars, NUM_THREADS, rows >>
    /\ UNCHANGED << submitted, fut, data, row_result, out_file, uploaded >>

\* The loop writing a row without flushing the one before.
CollectUnflushed(i) ==
    /\ jpc \in {"collect", "flush"}
    /\ i \in 1..Len(rows)
    /\ i \notin yielded
    /\ fut[i] \in {"returned", "raised"}
    /\ yielded' = yielded \cup {i}
    /\ buffer' = Append(buffer, [idx |-> i, row |-> RowOfFuture(i)])
    /\ jpc' = "flush"
    /\ UNCHANGED << dvars, gvars, NUM_THREADS, rows >>
    /\ UNCHANGED << submitted, fut, data, row_result, out_file, uploaded >>

\* Lines 131-148: as_completed yields a future that is done; its row is
\* written to the file object.
Collect(i) ==
    /\ jpc = "collect"
    /\ i \in 1..Len(rows)
    /\ i \notin yielded
    /\ fut[i] \in {"returned", "raised"}
    /\ yielded' = yielded \cup {i}
    /\ buffer' = Append(buffer, [idx |-> i, row |-> RowOfFuture(i)])
    /\ jpc' = "flush"
    /\ UNCHANGED << dvars, gvars, NUM_THREADS, rows >>
    /\ UNCHANGED << submitted, fut, data, row_result, out_file, uploaded >>

\* The loop going on without the flush of line 149.
FlushSkipped ==
    /\ jpc = "flush"
    /\ jpc' = "collect"
    /\ UNCHANGED << dvars, gvars, NUM_THREADS, rows >>
    /\ UNCHANGED << submitted, fut, data, row_result, yielded, buffer,
                    out_file, uploaded >>

\* Line 149: out_f.flush().
Flush ==
    /\ jpc = "flush"
    /\ out_file' = out_file \o buffer
    /\ buffer' = <<>>
    /\ jpc' = "collect"
    /\ UNCHANGED << dvars, gvars, NUM_THREADS, rows >>
    /\ UNCHANGED << submitted, fut, data, row_result, yielded, uploaded >>

\* The loop of line 131 over the futures done when it starts, not over all.
FinishEarly ==
    /\ jpc = "collect"
    /\ \A i \in 1..Len(rows) : fut[i] \in {"returned", "raised"} => i \in yielded
    /\ jpc' = "done"
    /\ uploaded' = Some(out_file \o buffer)
    /\ UNCHANGED << dvars, gvars, NUM_THREADS, rows >>
    /\ UNCHANGED << submitted, fut, data, row_result, yielded, buffer,
                    out_file >>

\* Lines 131, 152-155: every future was yielded; the pool and the file are
\* closed and the artifact is uploaded.
Finish ==
    /\ jpc = "collect"
    /\ yielded = 1..Len(rows)
    /\ jpc' = "done"
    /\ uploaded' = Some(out_file \o buffer)
    /\ UNCHANGED << dvars, gvars, NUM_THREADS, rows >>
    /\ UNCHANGED << submitted, fut, data, row_result, yielded, buffer,
                    out_file >>

(***************************************************************************)
(* The batch job: run_job over any input of the row set, each posted row   *)
(* served by find_email.                                                   *)
(***************************************************************************)
XIo == <<"x", ".", "i", "o">>

\* The rows csv.DictReader may give: a field is a string, or None when the
\* line is shorter than the header.
RowValues ==
    { [first_name |-> Some(<<" ", "A">>), last_name |-> Some(<<>>),
       company_website |-> Some(XIo)],
      [first_name |-> Some(<<" ">>), last_name |-> Some(<<"a">>),
       company_website |-> Some(XIo)],
      [first_name |-> Some(<<"a">>), last_name |-> None,
       company_website |-> None] }

BatchInputs == UNION {[1..n -> RowValues] : n \in 0..MaxRows}

\* What the verification service answers in a batch run.
BatchAnswers ==
    { TransportFailure, Payload(Some(<<"O", "K">>)) }

\* The state after line 123: the rows are read, the header is flushed.
InitBatch ==
    /\ NUM_THREADS \in 1..MaxThreads
    /\ rows \in BatchInputs
    /\ jpc = (IF rows = <<>> THEN "collect" ELSE "submit")
    /\ submitted = 0
    /\ fut = [i \in Reqs |-> "unsubmitted"]
    /\ data = [i \in Reqs |-> None]
    /\ row_result = [i \in Reqs |-> None]
    /\ yielded = {}
    /\ buffer = <<>>
    /\ out_file = <<>>
    /\ uploaded = None
    /\ gen_args = NoGeneratorCall
    /\ gen_out = None
    /\ NoDomainCall
    /\ request = [q \in Reqs |-> NoRequest]
    /\ fpc = [q \in Reqs |-> "idle"]
    /\ IdleDiscovery

NextBatch ==
    \/ Submit
    \/ Flush
    \/ Finish
    \/ \E i \in Reqs :
          \/ StartRow(i)
          \/ PostReturns(i)
          \/ PostFails(i)
          \/ PostReturnsNonObject(i)
          \/ RowReturns(i)
          \/ Collect(i)
          \/ FindEmail(i)
          \/ \E answer \in BatchAnswers : ProbeReturn(i, answer)
          \/ SleepReturn(i)

SpecBatch == InitBatch /\ [][NextBatch]_vars

\* The batch job with its scheduling: the main thread goes on (lines
\* 126-153), a free worker takes a queued row, the POST of line 65 returns or
\* runs into its timeout of 60 seconds, and the sleep of line 72 ends.
FairBatch ==
    /\ WF_vars(Submit)
    /\ WF_vars(Flush)
    /\ WF_vars(Finish)
    /\ \A i \in Reqs :
          /\ WF_vars(StartRow(i))
          /\ WF_vars(PostReturns(i) \/ PostFails(i) \/ PostReturnsNonObject(i))
          /\ WF_vars(RowReturns(i))
          /\ WF_vars(Collect(i))

SpecBatchFair == InitBatch /\ [][NextBatch]_vars /\ FairBatch

(***************************************************************************)
(* The candidate generator on its own: one call with any arguments of the  *)
(* input sets.                                                             *)
(***************************************************************************)
\* Longest first and last name of a generator call.
MaxNameLen == 2

GenAlphabet == {"a", "b", "A", "."}

GenNames == UNION {[1..n -> GenAlphabet] : n \in 0..MaxNameLen}

GenDomains == { <<>>, <<"x", ".", "i", "o">> }

GenInputs ==
    { [first_name |-> f, last_name |-> l, domain |-> d] :
        f \in GenNames,
        l \in {None} \cup {Some(n) : n \in GenNames},
        d \in GenDomains }

InitGen ==
    /\ gen_args \in GenInputs
    /\ gen_out = None
    /\ NoDomainCall
    /\ request = [q \in Reqs |-> NoRequest]
    /\ fpc = [q \in Reqs |-> "idle"]
    /\ IdleDiscovery
    /\ IdleBatch

Generate ==
    /\ gen_out = None
    /\ gen_out' = Some(generate_prioritized_email_patterns(
                        gen_args.first_name, gen_args.last_name, gen_args.domain))
    /\ UNCHANGED << dvars, bvars, gen_args, dom_arg, dom_out >>

NextGen == Generate

SpecGen == InitGen /\ [][NextGen]_vars

(***************************************************************************)
(* extract_root_domain on its own: one call with any website of the input  *)
(* set.  A website is a scheme part, a "www." part, a host and a tail;     *)
(* the parts cover the prefixes at the start, repeated, after white space  *)
(* and inside the host or the path.                                        *)
(***************************************************************************)
SchemeParts ==
    { <<>>, HttpPrefix, HttpsPrefix, HttpPrefix \o HttpsPrefix, <<" ">> \o HttpPrefix }

WwwParts == { <<>>, WwwPrefix, WwwPrefix \o WwwPrefix }

HostParts ==
    { <<"x", ".", "i", "o">>,
      <<"a">> \o WwwPrefix \o <<"x">>,
      <<"x", ".">> \o HttpPrefix \o <<"y">>,
      <<"h", "t">> \o HttpPrefix \o <<"t", "p", ":", "/", "/", "x">> }

TailParts == { <<>>, <<" ">>, <<"/", "a">>, <<"/">> \o WwwPrefix \o <<"a", "/">> }

DomainInputs ==
    { s \o w \o h \o t :
        s \in SchemeParts, w \in WwwParts, h \in HostParts, t \in TailParts }

InitDomain ==
    /\ dom_arg \in DomainInputs
    /\ dom_out = None
    /\ gen_args = NoGeneratorCall
    /\ gen_out = None
    /\ request = [q \in Reqs |-> NoRequest]
    /\ fpc = [q \in Reqs |-> "idle"]
    /\ IdleDiscovery
    /\ IdleBatch

ExtractRootDomain ==
    /\ dom_out = None
    /\ dom_out' = Some(extract_root_domain(dom_arg))
    /\ UNCHANGED << dvars, bvars, gen_args, gen_out, dom_arg >>

NextDomain == ExtractRootDomain

SpecDomain == InitDomain /\ [][NextDomain]_vars

(***************************************************************************)
(* Properties of the candidate generator (checked under SpecGen)           *)
(***************************************************************************)
\* The nine templates of the priority list over the names first and last, and
\* the single template when there is no last name.
Templates(first, last, domain) ==
    LET f == Str(<<first[1]>>)
        d == "@" \o Str(domain)
    IN  IF last = <<>>
        THEN << Str(first) \o d >>
        ELSE LET l == Str(<<last[1]>>)
             IN  << Str(first) \o d,
                    f \o Str(last) \o d,
                    Str(first) \o "." \o Str(last) \o d,
                    Str(first) \o Str(last) \o d,
                    f \o "." \o Str(last) \o d,
                    f \o l \o d,
                    Str(first) \o l \o d,
                    Str(last) \o Str(first) \o d,
                    Str(last) \o d >>

\* The position of the first occurrence of x in l.
FirstIndex(l, x) ==
    CHOOSE i \in 1..Len(l) : l[i] = x /\ \A j \in 1..(i - 1) : l[j] # x

\* out is l with every entry but its first occurrence removed.
IsFirstOccurrenceDedup(out, l) ==
    /\ Range(out) = Range(l)
    /\ \A i, j \in 1..Len(out) : i # j => out[i] # out[j]
    /\ \A i, j \in 1..Len(out) :
          i < j => FirstIndex(l, out[i]) < FirstIndex(l, out[j])

Entered(q) ==
    /\ fpc[q] \in {"probing", "sleeping", "done"}
    /\ \/ request[q].via = "direct"
       \/ request[q].via = "http" /\ response[q] = None
       \/ request[q].via = "http" /\ response[q] # None /\ response[q][1].status = 200

\* The index of the first valid reply of invocation q, 0 if there is none.
FirstValid(q) ==
    IF \E i \in 1..Len(replies[q]) : replies[q][i]
    THEN CHOOSE i \in 1..Len(replies[q]) :
           replies[q][i] /\ \A j \in 1..(i - 1) : ~replies[q][j]
    ELSE 0

\* C1: if candidate k is the first candidate whose probe returns is_valid =
\* true, find_valid_email has returned email_found = candidate k,
\* total_credits_used = k and no error, the probes issued are exactly
\* candidates 1..k in order, and no candidate after k is ever probed.
C1_StopsAtFirstValid ==
    \A q \in Reqs :
        LET k == FirstValid(q)
        IN  k > 0 =>
              /\ k <= Len(email_patterns[q])
              /\ calls[q] = SubSeq(email_patterns[q], 1, k)
              /\ Len(replies[q]) = k
              /\ fpc[q] = "done"
              /\ ret[q] # None
              /\ ret[q][1].email_found = email_patterns[q][k]
              /\ ret[q][1].total_credits_used = k
              /\ ret[q][1].error = None

\* Candidate 3 of a longer list was the first valid one and the call returned.
C1_Witness ==
    \E q \in Reqs :
        /\ FirstValid(q) = 3
        /\ Len(email_patterns[q]) > 3
        /\ ret[q] # None

\* C2: when a call over a non-empty candidate list has returned and no probe
\* was valid, every candidate was probed, email_found is "no valid email",
\* total_credits_used is the length of the (duplicate-free) candidate list, and
\* status_code, validation_result and error are those of the last probe.
C2_ExhaustedResult ==
    \A q \in Reqs :
        ( /\ fpc[q] = "done"
          /\ Entered(q)
          /\ email_patterns[q] # <<>>
          /\ FirstValid(q) = 0 )
        => /\ Len(replies[q]) = Len(email_patterns[q])
           /\ calls[q] = email_patterns[q]
           /\ Cardinality(Range(email_patterns[q])) = Len(email_patterns[q])
           /\ ret[q] # None
           /\ ret[q][1].email_found = "no valid email"
           /\ ret[q][1].total_credits_used = Len(email_patterns[q])
           /\ ret[q][1].status_code = Some(last_reply[q][1].status_code)
           /\ ret[q][1].validation_result = last_reply[q][1].details
           /\ ret[q][1].error = last_reply[q][1].error

\* A list of at least three candidates was exhausted and the call returned
\* the status code of a classified payload.
C2_Witness ==
    \E q \in Reqs :
        /\ fpc[q] = "done"
        /\ Len(email_patterns[q]) >= 3
        /\ Len(replies[q]) = Len(email_patterns[q])
        /\ FirstValid(q) = 0
        /\ ret[q] # None
        /\ ret[q][1].status_code = Some("ko")

\* C3: at every point of a discovery run attempts is the number of
\* verification calls issued so far, and the total_credits_used returned is the
\* number of calls issued during the run.
C3_CreditsAreCalls ==
    \A q \in Reqs :
        /\ attempts[q] = Len(calls[q])
        /\ Len(calls[q]) - Len(replies[q]) = (IF fpc[q] = "probing" THEN 1 ELSE 0)
        /\ ret[q] # None => ret[q][1].total_credits_used = Len(calls[q])

\* A run returned after three calls, the last of which failed in transport.
C3_Witness ==
    \E q \in Reqs :
        /\ ret[q] # None
        /\ Len(calls[q]) = 3
        /\ last_reply[q][1].status_code = "request_error"

\* The first_name argument of invocation q.
FirstNameOf(q) == Get(request[q].body, "first_name")

\* C4: a call of find_valid_email whose first_name is empty, or empty after
\* trimming, issues no verification call and returns "no valid email" with
\* total_credits_used = 0 and error "No pattern returned as valid", whatever
\* last_name and company_website are.
C4_EmptyFirstName ==
    \A q \in Reqs :
        ( /\ Entered(q)
          /\ Strip(OrEmpty(FirstNameOf(q))) = <<>> )
        => /\ calls[q] = <<>>
           /\ fpc[q] = "done"
           /\ ret[q] # None
           /\ ret[q][1].email_found = "no valid email"
           /\ ret[q][1].total_credits_used = 0
           /\ ret[q][1].error = Some("No pattern returned as valid")

\* A direct call with a blank first_name and a last_name has returned.
C4_Witness ==
    \E q \in Reqs :
        /\ request[q].via = "direct"
        /\ FirstNameOf(q) = Some(<<" ">>)
        /\ Truthy(Get(request[q].body, "last_name"))
        /\ ret[q] # None

\* A required parameter of an HTTP request is missing (no JSON body, key
\* absent, null) or the empty string.
MissingOrEmpty(rq, key) ==
    \/ ~rq.has_json
    \/ key \notin DOMAIN rq.body
    \/ rq.body[key] = None
    \/ rq.body[key] = Some(<<>>)

DiscoveryFields ==
    {"email_found", "status_code", "validation_result", "total_credits_used",
     "error"}

\* C8: find_email answers 400 and issues no verification call whenever
\* first_name or company_website is missing or empty; any other request runs
\* the discovery, and the response is a 200 carrying the five fields of the
\* DiscoveryResult that find_valid_email returned.
C8_FindEmailSurface ==
    \A q \in Reqs :
        (request[q].via = "http" /\ fpc[q] # "posted") =>
            IF \/ MissingOrEmpty(request[q], "first_name")
               \/ MissingOrEmpty(request[q], "company_website")
            THEN /\ fpc[q] = "done"
                 /\ response[q] # None
                 /\ response[q][1].status = 400
                 /\ calls[q] = <<>>
                 /\ ret[q] = None
            ELSE /\ fpc[q] \in {"probing", "sleeping", "done"}
                 /\ fpc[q] = "done" =>
                      /\ response[q] # None
                      /\ response[q][1].status = 200
                      /\ DOMAIN response[q][1].body = DiscoveryFields
                      /\ ret[q] = Some(response[q][1].body)

\* A request with a first_name and an empty company_website was answered.
C8_Witness ==
    \E q \in Reqs :
        /\ request[q].via = "http"
        /\ request[q].has_json
        /\ DOMAIN request[q].body = Keys
        /\ Truthy(request[q].body["first_name"])
        /\ request[q].body["company_website"] = Some(<<>>)
        /\ response[q] # None

\* C10: every ProbeResult returned is of exactly one class: transport failure
\* (not valid, "request_error", no details, an error), decode failure (not
\* valid, "json_error", no details, an error) or classified response (no
\* error, details = the payload); in each, is_valid holds exactly when
\* status_code is "ok", "catch_all" or "catchall".
C10_ProbeResultClasses ==
    \A q \in Reqs :
        last_reply[q] # None =>
            LET r == last_reply[q][1]
                a == last_answer[q][1]
                transport == /\ ~r.is_valid
                             /\ r.status_code = "request_error"
                             /\ r.details = None
                             /\ r.error # None
                decode == /\ ~r.is_valid
                          /\ r.status_code = "json_error"
                          /\ r.details = None
                          /\ r.error # None
                classified == /\ r.error = None
                              /\ r.details = Some(a)
                              /\ a.kind = "json"
            IN  /\ Cardinality({c \in {"t", "d", "c"} :
                        \/ c = "t" /\ transport
                        \/ c = "d" /\ decode
                        \/ c = "c" /\ classified}) = 1
                /\ a.kind = "transport" => transport
                /\ a.kind = "nonjson" => decode
                /\ r.is_valid <=> r.status_code \in {"ok", "catch_all", "catchall"}

\* The service answered a call with a payload whose code is upper-case "OK",
\* and the result is valid with status_code "ok".
C10_Witness ==
    \E q \in Reqs :
        /\ last_answer[q] = Some(Payload(Some(<<"O", "K">>)))
        /\ last_reply[q][1].is_valid
        /\ last_reply[q][1].status_code = "ok"

(***************************************************************************)
(* Properties of the batch job (checked under SpecBatch)                   *)
(***************************************************************************)
\* The rows handed to writerow so far, flushed or not.
Written == out_file \o buffer

\* The entries of a sequence of written rows that belong to input row i.
EntriesOf(art, i) == {k \in 1..Len(art) : art[k].idx = i}

DiscoveryColumns ==
    {"email_found", "status_code", "validation_result", "total_credits_used",
     "error"}

\* C5: when run_job finishes, the output artifact holds exactly one data row
\* per input row, skipped and faulted rows included; at no moment of the run
\* is a row written twice.
C5_OneRowPerInputRow ==
    /\ \A i \in Reqs : Cardinality(EntriesOf(Written, i)) <= 1
    /\ jpc = "done" =>
         /\ uploaded # None
         /\ uploaded[1] = out_file
         /\ Len(uploaded[1]) = Len(rows)
         /\ \A i \in 1..Len(rows) : Cardinality(EntriesOf(uploaded[1], i)) = 1

\* A job over two rows has finished; one row was skipped and the processing of
\* the other raised.
C5_Witness ==
    /\ jpc = "done"
    /\ Len(rows) = 2
    /\ \E i, j \in 1..2 :
         /\ fut[i] = "raised"
         /\ fut[j] = "returned"
         /\ row_result[j][1].error = Some("Missing required fields")

\* first_name or company_website of an input row is empty after trimming.
LacksRequiredField(row) ==
    \/ Strip(OrEmpty(Get(row, "first_name"))) = <<>>
    \/ Strip(OrEmpty(Get(row, "company_website"))) = <<>>

\* C6: a row whose first_name or company_website is empty after trimming is
\* never posted to find_email and causes no verification call; its row carries
\* error "Missing required fields" and null discovery fields; and when the job
\* is done every other row of the batch is in the artifact too.
C6_MissingFieldsRow ==
    \A i \in 1..Len(rows) :
        LacksRequiredField(rows[i]) =>
            /\ fpc[i] = "idle"
            /\ request[i] = NoRequest
            /\ calls[i] = <<>>
            /\ fut[i] \in {"unsubmitted", "pending", "returned"}
            /\ \A k \in EntriesOf(Written, i) :
                 /\ Written[k].row.error = Some("Missing required fields")
                 /\ \A c \in DiscoveryColumns \ {"error"} : Written[k].row[c] = None
            /\ jpc = "done" =>
                 \A j \in 1..Len(rows) :
                     Cardinality(EntriesOf(uploaded[1], j)) = 1

\* A job has finished in which one row had no company_website and another row
\* was answered by find_email with an address.
C6_Witness ==
    /\ jpc = "done"
    /\ \E i, j \in 1..Len(rows) :
         /\ Field(rows[i], "first_name") # <<>>
         /\ Field(rows[i], "company_website") = <<>>
         /\ EntriesOf(uploaded[1], i) # {}
         /\ \E k \in EntriesOf(uploaded[1], j) :
              uploaded[1][k].row.email_found = Some("a@x.io")

\* C7: a row whose processing raised yields exactly one written row, with
\* every field null except error; it holds no worker; and when the job is done
\* every other row is in the artifact, with the result its processing returned.
C7_FaultIsolated ==
    \A i \in 1..Len(rows) :
        fut[i] = "raised" =>
            /\ i \notin Running
            /\ i \in yielded =>
                 /\ Cardinality(EntriesOf(Written, i)) = 1
                 /\ \A k \in EntriesOf(Written, i) :
                      /\ Written[k].row.error # None
                      /\ \A c \in DOMAIN Written[k].row \ {"error"} :
                           Written[k].row[c] = None
            /\ jpc = "done" =>
                 /\ i \in yielded
                 /\ \A j \in 1..Len(rows) :
                      /\ Cardinality(EntriesOf(uploaded[1], j)) = 1
                      /\ fut[j] = "returned" =>
                           \A k \in EntriesOf(uploaded[1], j) :
                               uploaded[1][k].row = row_result[j][1]

\* A job has finished in which the processing of one row raised and another
\* row, answered with an address, is in the artifact too.
C7_Witness ==
    /\ jpc = "done"
    /\ \E i, j \in 1..Len(rows) :
         /\ fut[i] = "raised"
         /\ fut[j] = "returned"
         /\ row_result[j][1].email_found = Some("a@x.io")
         /\ EntriesOf(uploaded[1], i) # {}


(***************************************************************************)
(* Properties of extract_root_domain (checked under SpecDomain)            *)
(***************************************************************************)
\* s without pat when s starts with pat, s otherwise.
DropLeading(s, pat) ==
    IF OccursAt(s, pat, 1) THEN SubSeq(s, Len(pat) + 1, Len(s)) ELSE s

\* At most one leading protocol prefix removed, then one leading "www.",
\* then the rest cut at the first "/" and trimmed.
LeadingPrefixesRemoved(w) ==
    LET a == IF OccursAt(w, HttpPrefix, 1) THEN DropLeading(w, HttpPrefix)
             ELSE DropLeading(w, HttpsPrefix)
        b == DropLeading(a, WwwPrefix)
    IN  Strip(SplitHead(b, "/"))

Contains(s, pat) == \E i \in 1..Len(s) : OccursAt(s, pat, i)

\* C11: extract_root_domain(w) is w with at most one leading "http://" or
\* "https://" removed, then one leading "www." removed, cut at the first
\* "/" and trimmed: a prefix that is not at the start stays, and the result
\* holds no "/" and no protocol prefix.
C11_LeadingPrefixesOnly ==
    dom_out # None =>
        /\ dom_out[1] = LeadingPrefixesRemoved(dom_arg)
        /\ "/" \notin Range(dom_out[1])
        /\ ~Contains(dom_out[1], HttpPrefix)
        /\ ~Contains(dom_out[1], HttpsPrefix)


(***************************************************************************)
(* Properties of the probe loop's scheduling (checked under SpecDiscover)  *)
(***************************************************************************)
\* The invalid probes of q so far that were not of the final candidate.
InvalidBeforeFinal(q) ==
    {i \in 1..Len(replies[q]) : ~replies[q][i] /\ i < Len(email_patterns[q])}

\* C12: the inter-probe delay is taken after an invalid probe exactly when
\* that probe was not of the final candidate: the loop never sleeps after
\* the final candidate's probe, and the sleeps so far are as many as the
\* invalid probes of non-final candidates.
C12_DelayOnlyBetweenProbes ==
    \A q \in Reqs :
        /\ fpc[q] = "sleeping" => pos[q] < Len(email_patterns[q])
        /\ delays[q] = Cardinality(InvalidBeforeFinal(q))


\* The latest probe of q ended in a transport or decode failure.
LastProbeFailed(q) ==
    /\ last_reply[q] # None
    /\ last_reply[q][1].status_code \in {"request_error", "json_error"}

\* The step in which a probe of q ends in a failure: it is counted as a
\* credit and as not valid, nothing is returned, the loop goes to its sleep.
FailureReceived(q) ==
    ( /\ fpc[q] = "probing"
      /\ fpc'[q] # "probing"
      /\ LastProbeFailed(q)' )
    => /\ fpc'[q] = "sleeping"
       /\ ret'[q] = None
       /\ response'[q] = None
       /\ replies'[q] = Append(replies[q], FALSE)
       /\ attempts'[q] = Len(calls[q])
       /\ failures'[q] = failures[q] + 1

\* The step after the sleep that follows a failure: the next candidate is
\* probed if one remains, else the exhausted result is returned.
FailurePassed(q) ==
    ( /\ fpc[q] = "sleeping"
      /\ fpc'[q] # "sleeping"
      /\ LastProbeFailed(q) )
    => IF pos[q] < Len(email_patterns[q])
       THEN /\ fpc'[q] = "probing"
            /\ calls'[q] = Append(calls[q], email_patterns[q][pos[q] + 1])
            /\ ret'[q] = None
       ELSE /\ fpc'[q] = "done"
            /\ ret'[q] # None
            /\ ret'[q][1].email_found = "no valid email"
            /\ ret'[q][1].total_credits_used = Len(email_patterns[q])

\* C14: a probe that ends in a transport failure ("request_error") or a
\* decode failure ("json_error") never ends the run: it has consumed one
\* credit, counts as not valid, and the loop goes on to the next candidate
\* when one remains, returning the exhausted result only after the last.
C14_FailureIsNotValid ==
    [][\A q \in Reqs : FailureReceived(q) /\ FailurePassed(q)]_vars

\* The first two probes ended in a failure, the third candidate was found
\* valid and was returned with three credits.
C14_Witness ==
    \E q \in Reqs :
        /\ failures[q] = 2
        /\ FirstValid(q) = 3
        /\ ret[q] # None
        /\ ret[q][1].email_found = email_patterns[q][3]
        /\ ret[q][1].total_credits_used = 3

(***************************************************************************)
(* Properties of concurrent probe loops (checked under SpecPair)           *)
(***************************************************************************)
\* C13: for each person the addresses probed so far are the first
\* candidates of the list in list order, no address is probed twice, and at
\* most one verification call is outstanding: a call is outstanding exactly
\* while the loop waits in validate_email, all earlier calls have returned.
C13_SequentialPerPerson ==
    \A q \in Reqs :
        /\ Len(calls[q]) <= Len(email_patterns[q])
        /\ calls[q] = SubSeq(email_patterns[q], 1, Len(calls[q]))
        /\ \A i, j \in 1..Len(calls[q]) : i # j => calls[q][i] # calls[q][j]
        /\ Len(calls[q]) - Len(replies[q]) = (IF fpc[q] = "probing" THEN 1 ELSE 0)

\* Two people's loops wait for a verification call at the same moment, one
\* of them on its third candidate.
C13_Witness ==
    /\ fpc[1] = "probing"
    /\ fpc[2] = "probing"
    /\ Len(calls[1]) = 3
    /\ Len(calls[2]) >= 1


(***************************************************************************)
(* Properties of the batch job's output and pool (checked under SpecBatch) *)
(***************************************************************************)
\* The rows whose unit of work is over.
Finished == {i \in 1..Len(rows) : fut[i] \in {"returned", "raised"}}

\* C15: writes to the output artifact are serialized: at most one row is
\* written and not yet flushed, that is the row of the loop's current
\* iteration, and the loop takes the next row only after the flush; no row
\* is written twice.
C15_WritesSerialized ==
    /\ Len(buffer) <= 1
    /\ buffer # <<>> <=> jpc = "flush"
    /\ \A i \in Reqs : Cardinality(EntriesOf(Written, i)) <= 1
    /\ {Written[k].idx : k \in 1..Len(Written)} = yielded

\* A row is written and not yet flushed while another row, whose unit of
\* work is over too, waits for the loop.
C15_Witness ==
    /\ jpc = "flush"
    /\ Len(buffer) = 1
    /\ \E i \in Finished : i \notin yielded

\* C16 as claimed: at every moment each row whose unit of work is over is
\* appended to and flushed in the artifact.
C16_FinishedRowsFlushed ==
    \A i \in Finished : EntriesOf(out_file, i) # {}

\* C16: at every moment each row the as_completed loop has taken is
\* flushed in the artifact, except the row of the current iteration between
\* its write and its flush; once the job is over all rows are flushed.
C16_YieldedRowsFlushed ==
    /\ \A i \in yielded :
          \/ EntriesOf(out_file, i) # {}
          \/ jpc = "flush" /\ EntriesOf(buffer, i) # {}
    /\ jpc \in {"collect", "done"} =>
          \A i \in yielded : EntriesOf(out_file, i) # {}

\* One row is flushed in the artifact while another row, whose unit of work
\* is over, is not: the loop has not taken it yet.
C16_Witness ==
    /\ jpc = "collect"
    /\ \E i \in yielded : EntriesOf(out_file, i) # {}
    /\ \E i \in Finished : i \notin yielded /\ EntriesOf(Written, i) = {}

\* C17: at most NUM_THREADS rows are being processed at any moment.
C17_PoolBound == Cardinality(Running) <= NUM_THREADS

\* Every worker is busy and a submitted row waits in the queue.
C17_Witness ==
    /\ Cardinality(Running) = NUM_THREADS
    /\ \E i \in 1..Len(rows) : fut[i] = "pending" /\ ~MissingRequired(rows[i])


\* C19 as claimed: the total_credits_used of every written row is the
\* number of verification calls made for that row, and no call was made for
\* a row written with a null total_credits_used.
C19_CreditsAreProbes ==
    \A k \in 1..Len(Written) :
        LET i == Written[k].idx
            c == Written[k].row.total_credits_used
        IN  IF c = None THEN calls[i] = <<>> ELSE c[1] = Len(calls[i])

\* C19: a non-null total_credits_used of a written row is the number of
\* verification calls made for that row, whose discovery run is over; and no
\* call was made for a row written as skipped for its missing fields.
C19_RecordedCreditsAreProbes ==
    \A k \in 1..Len(Written) :
        LET i == Written[k].idx
            c == Written[k].row.total_credits_used
        IN  /\ c # None => c[1] = Len(calls[i]) /\ fpc[i] = "done"
            /\ Written[k].row.error = Some("Missing required fields") =>
                  calls[i] = <<>>

\* One row is written with the one credit of its one call, another with a
\* null total_credits_used although a call was made for it.
C19_Witness ==
    \E k, l \in 1..Len(Written) :
        /\ Written[k].row.total_credits_used = Some(1)
        /\ Len(calls[Written[k].idx]) = 1
        /\ Written[l].row.total_credits_used = None
        /\ Len(calls[Written[l].idx]) = 1


(***************************************************************************)
(* Termination of the batch job (checked under SpecBatchFair)              *)
(***************************************************************************)
\* run_job is over and a row of every input row is in the uploaded artifact.
AllRowsWritten ==
    /\ jpc = "done"
    /\ uploaded # None
    /\ \A i \in 1..Len(rows) : Cardinality(EntriesOf(uploaded[1], i)) = 1

\* C18: when every POST returns or times out, the batch job eventually
\* ends with a row of every input row written, whatever the outcome of each
\* row (skipped, answered, failed or timed out, faulted).
C18_BatchTerminates == <>AllRowsWritten

\* The job is over with the row of a POST that failed or timed out and the
\* row of a fault in process_row.
C18_Witness ==
    /\ AllRowsWritten
    /\ \E k, l \in 1..Len(uploaded[1]) :
         /\ uploaded[1][k].row.error = Some("request failed")
         /\ uploaded[1][l].row.error = Some("Unhandled thread error")

=============================================================================
